---- MODULE Spec2Model ----
(***************************************************************************)
(* A model of the pinecone-context repository: the chunker of             *)
(* src/embeddings.js, the store pipeline and the grouping and formatting   *)
(* of results of src/context.js, the cached MCP server of mcp-server       *)
(* (caches, generateEmbedding, searchContext, listProjects, indexText and  *)
(* the tool handler) and the command line programs of src/scripts.         *)
(*                                                                         *)
(* Texts are sequences of one-character strings, addressed with 0-based    *)
(* offsets as in JavaScript.  Cache keys are strings built with \o.        *)
(***************************************************************************)
EXTENDS Integers, Sequences, FiniteSets, TLC

----------------------------------------------------------------------------
(* Bounds of the model *)

\* longest text handed to chunkText
MaxLen == 5

\* longest of the plain texts (runs of one letter) handed to chunkText
MaxLongLen == 8

\* most iterations of the chunking loop that are followed
MaxIter == 6

\* most tool calls the server is given
MaxCalls == 2

\* longest text handed to storeContext
MaxStoreLen == 13

\* most storeContext calls made
MaxStoreRuns == 2

\* most results one search returns to getRelevantContext
MaxResults == 3

\* batchSize (100) of storeContext, scaled down
BatchSize == 2

\* the default maxChunkSize = 1000 of chunkText, scaled down
DefaultMaxChunkSize == 4

\* the default overlap = 100 of chunkText, scaled down
DefaultOverlap == 1

\* the literal 100 of setCache, scaled down
CacheLimit == 2

\* CACHE_TTL (300000 ms), scaled down to clock ticks
CACHE_TTL == 1

\* the clock (Date.now()) runs from 0 to MaxTime, past the expiry of an entry
MaxTime == CACHE_TTL + 1

----------------------------------------------------------------------------
(* JavaScript string primitives used by chunkText *)

\* the characters texts are drawn from
Chars == {"a", " ", "\n", "."}

Min(a, b) == IF a < b THEN a ELSE b

Max(a, b) == IF a > b THEN a ELSE b

\* String.prototype.trim strips these from both ends
IsWhitespace(c) == c \in {" ", "\n", "\t", "\r"}

\* text.slice(b, e): negative offsets count from the end, both are clamped
Slice(s, b, e) ==
  LET len  == Len(s)
      from == IF b < 0 THEN Max(len + b, 0) ELSE Min(b, len)
      to   == IF e < 0 THEN Max(len + e, 0) ELSE Min(e, len)
  IN  IF from < to THEN SubSeq(s, from + 1, to) ELSE << >>

\* s.trim()
Trim(s) ==
  LET keep == {i \in 1..Len(s) : ~IsWhitespace(s[i])}
  IN  IF keep = {} THEN << >>
      ELSE LET lo == CHOOSE i \in keep : \A j \in keep : i <= j
               hi == CHOOSE i \in keep : \A j \in keep : j <= i
           IN  SubSeq(s, lo, hi)

\* does bp occur in s at 0-based offset i
MatchAt(s, bp, i) ==
  /\ i >= 0
  /\ i + Len(bp) <= Len(s)
  /\ \A k \in 1..Len(bp) : s[i + k] = bp[k]

\* s.lastIndexOf(bp, fromIndex): the largest offset <= fromIndex (clamped to
\* 0 .. length - bp.length) at which bp occurs, or -1
LastIndexOf(s, bp, fromIndex) ==
  LET top  == Min(Max(fromIndex, 0), Len(s) - Len(bp))
      hits == {i \in 0..top : MatchAt(s, bp, i)}
  IN  IF hits = {} THEN -1
      ELSE CHOOSE i \in hits : \A j \in hits : j <= i

----------------------------------------------------------------------------
(* chunkText, src/embeddings.js *)

breakPoints == << <<"\n", "\n">>, <<"\n">>, <<".", " ">>, <<"!", " ">>, <<"?", " ">> >>

\* lastBreak > start + maxChunkSize / 2, the division being exact
BreakAccepted(lastBreak, from, size) == 2 * lastBreak > 2 * from + size

\* the for loop over breakPoints: the first marker whose last occurrence at or
\* before `end` lies past the middle of the window moves `end` behind it
BreakEnd(s, from, end, size) ==
  LET ok == {k \in 1..Len(breakPoints) :
               BreakAccepted(LastIndexOf(s, breakPoints[k], end), from, size)}
  IN  IF ok = {} THEN end
      ELSE LET k == CHOOSE i \in ok : \A j \in ok : i <= j
           IN  LastIndexOf(s, breakPoints[k], end) + Len(breakPoints[k])

\* the end offset one iteration of the while loop settles on
ChunkEnd(s, from, size) ==
  LET end == from + size
  IN  IF end < Len(s) THEN BreakEnd(s, from, end, size) ELSE end

\* start = end - overlap
NextStart(end, ov) == end - ov

\* chunks.filter(c => c.length > 0)
FilterNonEmpty(cs) == SelectSeq(cs, LAMBDA c : Len(c) > 0)

----------------------------------------------------------------------------
(* The caches of the MCP server: getCached and setCache *)

\* What getCached returns: Null for null, Some(v) for the value v
Null == << >>

Some(v) == <<v>>

NoCall == [kind |-> "none"]

Has(cache, key) == \E i \in 1..Len(cache) : cache[i].key = key

\* cache.get(key); only used when Has(cache, key)
Get(cache, key) == cache[CHOOSE i \in 1..Len(cache) : cache[i].key = key]

\* cache.delete(key)
Delete(cache, key) == SelectSeq(cache, LAMBDA e : e.key # key)

\* cache.set(key, item): an existing key keeps its place, a new one goes last.
\* An entry is the key with its item {value, expiresAt}; setAt and setValue
\* are history, the time and the value of the setCache call that wrote it.
MapSet(cache, key, item) ==
  LET entry == [key |-> key, value |-> item.value, expiresAt |-> item.expiresAt,
                setAt |-> item.setAt, setValue |-> item.setValue]
  IN  IF Has(cache, key)
      THEN [i \in 1..Len(cache) |-> IF cache[i].key = key THEN entry ELSE cache[i]]
      ELSE Append(cache, entry)

\* the comparison of getCached turned around
ExpiredReversed(item, t) == t < item.expiresAt

\* Date.now() > item.expiresAt
Expired(item, t) == t > item.expiresAt

\* the value getCached(cache, key) returns at time t
getCachedValue(cache, key, t) ==
  IF ~Has(cache, key) THEN Null
  ELSE IF Expired(Get(cache, key), t) THEN Null
  ELSE Some(Get(cache, key).value)

\* the cache getCached(cache, key) leaves behind at time t
getCachedMap(cache, key, t) ==
  IF Has(cache, key) /\ Expired(Get(cache, key), t) THEN Delete(cache, key) ELSE cache

\* if (cache.size > 100)
OverLimit(cache) == Len(cache) > CacheLimit

\* the cache setCache(cache, key, value) leaves behind at time t
setCache(cache, key, value, t) ==
  LET kept == IF OverLimit(cache) THEN Delete(cache, cache[1].key) ELSE cache
  IN  MapSet(kept, key, [value |-> value, expiresAt |-> t + CACHE_TTL,
                         setAt |-> t, setValue |-> value])

----------------------------------------------------------------------------
(* The MCP server: generateEmbedding, searchContext and the tool handler *)

\* the tool calls that may be in progress at once
Procs == {1, 2}

\* a || b on strings: the empty string stands for every falsy argument
\* (undefined, null, '')
StrOr(a, b) == IF a = "" THEN b ELSE a

\* a || b on numbers: 0 stands for every falsy argument (undefined, 0)
NumOr(a, b) == IF a = 0 THEN b ELSE a

\* Math.min(args.topK || 5, 20)
ClampTopK(k) == Min(NumOr(k, 5), 20)

\* const cacheKey = `${query}:${project || 'all'}:${topK}`
cacheKey(query, project, topK) ==
  query \o ":" \o StrOr(project, "all") \o ":" \o ToString(topK)

\* the test of the cached value left out
IsCachedNever(cached) == FALSE

\* if (cached) return cached: null is falsy; an embedding or a result list is
\* an array, and an array is truthy also when it is empty
IsCached(cached) == cached # Null

\* the embedding provider: response.data[0].embedding for the input text
Embedding(input) == <<"vec", input>>

\* const filter = project ? { project: { $eq: project } } : undefined,
\* as the index applies it to a record
FilterAccepts(project, rec) == project = "" \/ rec.project = project

\* idx.query({vector, topK, filter, includeMetadata: true}).matches: the
\* records the filter accepts, the first topK of them
IndexQuery(idx, project, topK) ==
  LET m == SelectSeq(idx, LAMBDA rec : FilterAccepts(project, rec))
  IN  SubSeq(m, 1, Min(topK, Len(m)))

\* results.matches.map(match => ({score, text, project, type, filePath}))
FormatResults(matches) ==
  [i \in 1..Len(matches) |->
     [text |-> matches[i].text, project |-> matches[i].project,
      type |-> matches[i].type]]

\* the arguments {query, project, topK} pinecone_search is called with: an
\* absent project is "", an absent topK is 0
SearchArguments ==
  {<<"q", "", 0>>, <<"q", "all", 0>>, <<"q", "", 1>>, <<"r", "", 0>>}

\* the records the index holds when the server starts
InitialIndex ==
  << [id |-> "ctx_1", text |-> "t1", project |-> "all", type |-> "note"],
     [id |-> "ctx_2", text |-> "t2", project |-> "p", type |-> "code"] >>

----------------------------------------------------------------------------
(* State *)

VARIABLES
  text,          \* chunkText: the text argument
  maxChunkSize,  \* chunkText: the maxChunkSize argument
  overlap,       \* chunkText: the overlap argument
  start,         \* chunkText: let start
  chunks,        \* chunkText: const chunks (pushed, unfiltered)
  slices,        \* history: <<start, end>> of every text.slice of the call
  iters,         \* history: iterations of the while loop so far
  cpc,           \* chunkText: "idle", "loop" or "done"
  result         \* chunkText: the returned sequence once cpc = "done"

chunkVars == <<text, maxChunkSize, overlap, start, chunks, slices, iters, cpc, result>>

VARIABLES
  now,             \* Date.now()
  embeddingCache,  \* Map, as the sequence of its entries in insertion order
  searchCache,     \* Map, as the sequence of its entries in insertion order
  lastGet          \* history: the getCached call just made, or NoCall

cacheVars == <<now, embeddingCache, searchCache, lastGet>>

VARIABLES
  call,          \* per tool call in progress: its arguments, locals and place
  searchOrigin,  \* history: cache key -> arguments of the search that stored it
  started        \* history: tool calls started so far

serverVars == <<call, searchOrigin, started>>

VARIABLES
  index          \* the records of the Pinecone index, in the order stored

VARIABLES
  spc,           \* storeContext: where the call is
  metadata,      \* storeContext: the metadata argument
  vectors,       \* storeContext: const vectors
  bi,            \* storeContext: the loop variable i of the batch loop
  upserts,       \* history: the batches index.upsert was called with
  acked,         \* history: how many of them the index has acknowledged
  returned,      \* storeContext: the id list the call returned
  runs           \* history: text, metadata, ids and index ids of each returned call

storeVars == <<spc, metadata, vectors, bi, upserts, acked, returned, runs>>

VARIABLES
  results,       \* getRelevantContext: const results
  grouped,       \* getRelevantContext: const grouped
  gi,            \* getRelevantContext: position of the for...of loop
  gpc,           \* getRelevantContext: "idle", "loop", "done" or "thrown"
  contextString  \* getRelevantContext: the contextString it returns

groupVars == <<results, grouped, gi, gpc, contextString>>

VARIABLES
  cli            \* the command line program run: its arguments and progress

\* the state of the query side and of the command line programs
restVars == <<groupVars, cli>>

\* the state of the chunker, the caches, the server, the index and the store
coreVars == <<chunkVars, cacheVars, serverVars, index, storeVars>>

vars == <<coreVars, restVars>>

\* const grouped = { conversation: [], code: [], documentation: [], other: [] }
EmptyGroups ==
  [conversation |-> << >>, code |-> << >>, documentation |-> << >>, other |-> << >>]

\* no getRelevantContext call has been made
GroupIdle ==
  /\ results = << >>
  /\ grouped = EmptyGroups
  /\ gi = 0
  /\ gpc = "idle"
  /\ contextString = ""

\* no program has been started
NoCli ==
  [script |-> "", args |-> [file |-> "", text |-> "", dir |-> "", type |-> "",
                            ext |-> "", required |-> FALSE],
   configOk |-> FALSE, pc |-> "idle", todo |-> << >>, done |-> << >>,
   stderr |-> << >>, rejected |-> FALSE, exitCode |-> -1,
   missing |-> {}, network |-> {}]

RestIdle == GroupIdle /\ cli = NoCli

\* no chunkText call is in progress
ChunkIdle ==
  /\ text = << >>
  /\ maxChunkSize = 0
  /\ overlap = 0
  /\ start = 0
  /\ chunks = << >>
  /\ slices = << >>
  /\ iters = 0
  /\ cpc = "idle"
  /\ result = << >>

\* the caches as the module creates them: new Map()
CacheIdle ==
  /\ now = 0
  /\ embeddingCache = << >>
  /\ searchCache = << >>
  /\ lastGet = NoCall

\* tool: request.params.name; type, id: locals of indexText; thrown: the
\* message of the error thrown inside the handler's try; content: the text of
\* the content block returned by a call that is not a search; indexAtStart is
\* history, the records the index held when a search arrived; touchedSearch
\* and touchedEmbedding are history, whether a step of the search has changed
\* searchCache or embeddingCache;
\* afterFailure: history, the call before it in this slot ended in the catch
NoToolCall ==
  [pc |-> "idle", query |-> "", project |-> "", topK |-> 0, key |-> "",
   embedding |-> Null, resp |-> Null, isError |-> FALSE, hit |-> FALSE,
   nEmbed |-> 0, embedAt |-> -1, embedStatus |-> "none", nQuery |-> 0,
   tool |-> "", type |-> "", id |-> "", timestamp |-> "", thrown |-> "",
   content |-> "",
   afterFailure |-> FALSE, indexAtStart |-> << >>,
   touchedSearch |-> FALSE, touchedEmbedding |-> FALSE]

\* no storeContext call has been made
StoreIdle ==
  /\ spc = "idle"
  /\ metadata = << >>
  /\ vectors = << >>
  /\ bi = 0
  /\ upserts = << >>
  /\ acked = 0
  /\ returned = << >>
  /\ runs = << >>

\* the server before its first tool call
ServerIdle ==
  /\ call = [p \in Procs |-> NoToolCall]
  /\ searchOrigin = {}
  /\ started = 0

----------------------------------------------------------------------------
(* chunkText as a process: one step per iteration of its while loop *)

\* all texts of at most n characters
TextsUpTo(n) == UNION {[1..k -> Chars] : k \in 0..n}

\* plain texts longer than that: runs of one letter
LongTexts == {[k \in 1..n |-> "a"] : n \in (MaxLen + 1)..MaxLongLen}

\* texts longer than that with a line break past their middle
TextsWithBreak ==
  {[k \in 1..n |-> IF k = MaxLen - 1 THEN "\n" ELSE "a"] :
     n \in (MaxLen + 1)..MaxLongLen}

\* the (maxChunkSize, overlap) pairs chunkText is called with
ChunkParams ==
  {<<DefaultMaxChunkSize, DefaultOverlap>>,
   <<2, 0>>, <<3, 1>>, <<4, 1>>, <<5, 2>>, <<5, 4>>, <<2, 2>>}

\* entering chunkText(t, size, ov)
ChunkCall(t, size, ov) ==
  /\ text = t
  /\ maxChunkSize = size
  /\ overlap = ov
  /\ start = 0
  /\ chunks = << >>
  /\ slices = << >>
  /\ iters = 0
  /\ cpc = "loop"
  /\ result = << >>

\* one iteration of while (start < text.length)
ChunkStep ==
  /\ cpc = "loop"
  /\ start < Len(text)
  /\ iters < MaxIter
  /\ LET end == ChunkEnd(text, start, maxChunkSize)
     IN  /\ chunks' = Append(chunks, Trim(Slice(text, start, end)))
         /\ slices' = Append(slices, <<start, end>>)
         /\ start' = NextStart(end, overlap)
  /\ iters' = iters + 1
  /\ UNCHANGED <<text, maxChunkSize, overlap, cpc, result>>
  /\ UNCHANGED <<restVars, cacheVars, serverVars, index, storeVars>>

\* the loop condition fails: return chunks.filter(...)
ChunkReturn ==
  /\ cpc = "loop"
  /\ ~(start < Len(text))
  /\ result' = FilterNonEmpty(chunks)
  /\ cpc' = "done"
  /\ UNCHANGED <<text, maxChunkSize, overlap, start, chunks, slices, iters>>
  /\ UNCHANGED <<restVars, cacheVars, serverVars, index, storeVars>>

ChunkInit ==
  /\ \E t \in TextsUpTo(MaxLen) \cup LongTexts \cup TextsWithBreak,
        p \in ChunkParams :
       ChunkCall(t, p[1], p[2])
  /\ CacheIdle
  /\ ServerIdle
  /\ index = << >>
  /\ StoreIdle
  /\ RestIdle

ChunkNext == ChunkStep \/ ChunkReturn

\* chunkText called on every text and parameter pair of the bounds
SpecChunk == ChunkInit /\ [][ChunkNext]_vars

----------------------------------------------------------------------------
(* One cache driven directly by setCache and getCached calls *)

\* the keys the cache is driven with: enough to overflow it and go on
CacheKeys == 1..(CacheLimit + 2)

\* the value the cache is given for a key at time t; the cache only stores
\* and returns values, so one value per key and time tells the entries apart
CacheValue(key, t) == <<"value", key, t>>

\* setCache(embeddingCache, key, value)
CallSetCache(key, value) ==
  /\ embeddingCache' = setCache(embeddingCache, key, value, now)
  /\ lastGet' = NoCall
  /\ UNCHANGED <<now, searchCache>>
  /\ UNCHANGED <<restVars, chunkVars, serverVars, index, storeVars>>

\* getCached(embeddingCache, key)
CallGetCached(key) ==
  /\ embeddingCache' = getCachedMap(embeddingCache, key, now)
  /\ lastGet' = [kind |-> "get", key |-> key, at |-> now,
                 found |-> IF Has(embeddingCache, key)
                           THEN <<Get(embeddingCache, key)>> ELSE << >>,
                 value |-> getCachedValue(embeddingCache, key, now)]
  /\ UNCHANGED <<now, searchCache>>
  /\ UNCHANGED <<restVars, chunkVars, serverVars, index, storeVars>>

\* time passes
Tick ==
  /\ now < MaxTime
  /\ now' = now + 1
  /\ lastGet' = NoCall
  /\ UNCHANGED <<embeddingCache, searchCache>>
  /\ UNCHANGED <<restVars, chunkVars, serverVars, index, storeVars>>

CacheInit ==
  ChunkIdle /\ CacheIdle /\ ServerIdle /\ index = << >> /\ StoreIdle /\ RestIdle

CacheNext ==
  \/ \E k \in CacheKeys : CallSetCache(k, CacheValue(k, now))
  \/ \E k \in CacheKeys : CallGetCached(k)
  \/ Tick

\* any sequence of setCache and getCached calls on one cache, with time passing
SpecCache == CacheInit /\ [][CacheNext]_vars

----------------------------------------------------------------------------
(* The MCP server: tool calls as processes, one step per await *)

\* the arguments searchContext was called with
SearchArgs(c) == <<c.query, c.project, c.topK>>

\* no tool call is in progress in slot p
Free(p) == call[p].pc \in {"idle", "done"}

\* the slot the next tool call runs in: the slots are interchangeable, so it
\* is the first free one
IsNextSlot(p) == Free(p) /\ \A q \in Procs : Free(q) => p <= q

\* the error is not caught: the handler's promise rejects
Uncaught(c, message) == [c EXCEPT !.pc = "rejected", !.thrown = message]

\* catch (error): return { content: [{text: `Error: ${error.message}`}],
\* isError: true }
Caught(c, message) ==
  [c EXCEPT !.pc = "done", !.thrown = message, !.isError = TRUE,
            !.content = "Error: " \o message]

\* pinecone_search arrives: the handler calls searchContext, which runs up to
\* its first await; a hit in searchCache returns at once
SearchCall(p, q, proj, k) ==
  /\ started < MaxCalls
  /\ IsNextSlot(p)
  /\ LET topK   == ClampTopK(k)
         key    == cacheKey(q, proj, topK)
         cached == getCachedValue(searchCache, key, now)
         left   == getCachedMap(searchCache, key, now)
         c      == [NoToolCall EXCEPT !.query = q, !.project = proj,
                                      !.topK = topK, !.key = key,
                                      !.tool = "pinecone_search",
                                      !.afterFailure = (call[p].thrown # ""),
                                      !.indexAtStart = index,
                                      !.touchedSearch = (left # searchCache)]
     IN  /\ searchCache' = left
         /\ call' = [call EXCEPT ![p] =
                       IF IsCached(cached)
                       THEN [c EXCEPT !.pc = "done", !.resp = cached[1], !.hit = TRUE]
                       ELSE [c EXCEPT !.pc = "getIndex"]]
  /\ started' = started + 1
  /\ UNCHANGED <<index, searchOrigin>>
  /\ UNCHANGED <<restVars, storeVars, chunkVars, now, embeddingCache, lastGet>>

\* after await getIndex(): generateEmbedding(query) runs up to its await. A
\* miss in embeddingCache sends the request to the provider; a hit returns
\* the cached embedding, and searchContext goes on to send idx.query
GenerateEmbedding(p) ==
  /\ call[p].pc = "getIndex"
  /\ LET input  == call[p].query
         cached == getCachedValue(embeddingCache, input, now)
         left   == getCachedMap(embeddingCache, input, now)
     IN  /\ embeddingCache' = left
         /\ call' = [call EXCEPT ![p] =
                       IF IsCached(cached)
                       THEN [@ EXCEPT !.pc = "awaitQuery", !.embedding = cached[1],
                                      !.nQuery = @ + 1]
                       ELSE [@ EXCEPT !.pc = "awaitEmbed", !.nEmbed = @ + 1,
                                      !.embedAt = now, !.embedStatus = "pending",
                                      !.touchedEmbedding = (left # embeddingCache)]]
  /\ UNCHANGED <<index, searchOrigin, started>>
  /\ UNCHANGED <<restVars, storeVars, chunkVars, now, searchCache, lastGet>>

\* the provider answers: setCache(embeddingCache, text, embedding), and
\* searchContext goes on to send idx.query
EmbedOk(p) ==
  /\ call[p].pc = "awaitEmbed"
  /\ LET input     == call[p].query
         embedding == Embedding(input)
         written   == setCache(embeddingCache, input, embedding, now)
     IN  /\ embeddingCache' = written
         /\ call' = [call EXCEPT ![p].pc = "awaitQuery", ![p].embedding = embedding,
                                  ![p].embedStatus = "ok", ![p].nQuery = @ + 1,
                                  ![p].touchedEmbedding =
                                    @ \/ (written # embeddingCache)]
  /\ UNCHANGED <<index, searchOrigin, started>>
  /\ UNCHANGED <<restVars, storeVars, chunkVars, now, searchCache, lastGet>>

\* the provider request rejects: the error reaches the handler's catch
EmbedFail(p) ==
  /\ call[p].pc = "awaitEmbed"
  /\ call' = [call EXCEPT ![p] =
                Caught([@ EXCEPT !.embedStatus = "failed"], "embeddings.create failed")]
  /\ UNCHANGED <<index, searchOrigin, started>>
  /\ UNCHANGED <<restVars, storeVars, chunkVars, cacheVars>>

\* the index answers: the matches are mapped, cached and returned
QueryOk(p) ==
  /\ call[p].pc = "awaitQuery"
  /\ LET c == call[p]
         formattedResults == FormatResults(IndexQuery(index, c.project, c.topK))
         written == setCache(searchCache, c.key, formattedResults, now)
     IN  /\ searchCache' = written
         /\ searchOrigin' = {o \in searchOrigin : o[1] # c.key}
                              \cup {<<c.key, SearchArgs(c)>>}
         /\ call' = [call EXCEPT ![p].pc = "done", ![p].resp = formattedResults,
                                  ![p].touchedSearch = @ \/ (written # searchCache)]
  /\ UNCHANGED <<index, started>>
  /\ UNCHANGED <<restVars, storeVars, chunkVars, now, embeddingCache, lastGet>>

\* idx.query rejects and the catch caches an empty result list
QueryFailCachesEmpty(p) ==
  /\ call[p].pc = "awaitQuery"
  /\ searchCache' = setCache(searchCache, call[p].key, << >>, now)
  /\ call' = [call EXCEPT ![p] = Caught(@, "idx.query failed")]
  /\ UNCHANGED <<index, searchOrigin, started>>
  /\ UNCHANGED <<restVars, storeVars, chunkVars, now, embeddingCache, lastGet>>

\* idx.query rejects: the error reaches the handler's catch
QueryFail(p) ==
  /\ call[p].pc = "awaitQuery"
  /\ call' = [call EXCEPT ![p] = Caught(@, "idx.query failed")]
  /\ UNCHANGED <<index, searchOrigin, started>>
  /\ UNCHANGED <<restVars, storeVars, chunkVars, cacheVars>>

ServerInit ==
  /\ ChunkIdle /\ CacheIdle /\ ServerIdle /\ index = InitialIndex /\ StoreIdle
  /\ RestIdle

ServerNext ==
  \/ \E p \in Procs, a \in SearchArguments : SearchCall(p, a[1], a[2], a[3])
  \/ \E p \in Procs : GenerateEmbedding(p)
  \/ \E p \in Procs : EmbedOk(p)
  \/ \E p \in Procs : EmbedFail(p)
  \/ \E p \in Procs : QueryOk(p)
  \/ \E p \in Procs : QueryFail(p)
  \/ Tick

\* the server answering tool calls that may overlap, with time passing
SpecServer == ServerInit /\ [][ServerNext]_vars

----------------------------------------------------------------------------
(* The store pipeline of src/context.js: generateId and storeContext *)

\* a metadata object is the sequence of its members in key order; a member
\* holds a string or a number
MetaStr(k, v) == [k |-> k, num |-> FALSE, s |-> v, n |-> 0]

MetaNum(k, v) == [k |-> k, num |-> TRUE, s |-> "", n |-> v]

HasKey(obj, k) == \E j \in 1..Len(obj) : obj[j].k = k

\* obj[k] of a metadata object that has the key
Member(obj, k) == obj[CHOOSE j \in 1..Len(obj) : obj[j].k = k]

\* { ...obj, k: v }: an own key keeps its place and takes the new value, a
\* new key goes last
ObjSet(obj, member) ==
  IF HasKey(obj, member.k)
  THEN [j \in 1..Len(obj) |-> IF obj[j].k = member.k THEN member ELSE obj[j]]
  ELSE Append(obj, member)

\* JSON.stringify of one member: "key":value
JsonMember(member) ==
  "\"" \o member.k \o "\":" \o
    (IF member.num THEN ToString(member.n) ELSE "\"" \o member.s \o "\"")

RECURSIVE JsonMembers(_)
JsonMembers(obj) ==
  IF Len(obj) = 0 THEN ""
  ELSE IF Len(obj) = 1 THEN JsonMember(obj[1])
  ELSE JsonMember(obj[1]) \o "," \o JsonMembers(Tail(obj))

\* JSON.stringify(metadata)
JsonStringify(obj) == "{" \o JsonMembers(obj) \o "}"

\* a text (a sequence of characters) as one string
RECURSIVE Str(_)
Str(s) == IF Len(s) = 0 THEN "" ELSE s[1] \o Str(Tail(s))

\* crypto.createHash('md5').update(s).digest('hex').slice(0, 16), taken to be
\* free of collisions: the digest of s is named by s
Md5Hex16(s) == "md5(" \o s \o ")"

\* the id hashed from the metadata as it is stamped, timestamp included
generateIdStamped(t, meta) ==
  "ctx_" \o Md5Hex16(Str(t) \o
    JsonStringify(ObjSet(meta, MetaStr("timestamp", "T" \o ToString(now)))))

\* generateId(text, metadata)
generateId(t, meta) == "ctx_" \o Md5Hex16(Str(t) \o JsonStringify(meta))

\* generateEmbeddings(chunks): one vector per input, in order
Embeddings(cs) == [k \in 1..Len(cs) |-> Embedding(Str(cs[k]))]

\* new Date().toISOString()
IsoString(t) == "T" \o ToString(t)

\* the stamped metadata with the caller's metadata spread last, so that its
\* keys win: { text, chunkIndex, totalChunks, timestamp, ...metadata }
StampedMetadataSpreadLast(meta, chunk, k, n, t) ==
  LET stamped == <<MetaStr("text", Str(chunk)), MetaNum("chunkIndex", k),
                   MetaNum("totalChunks", n), MetaStr("timestamp", IsoString(t))>>
  IN  [j \in 1..Len(stamped) |->
         IF HasKey(meta, stamped[j].k) THEN Member(meta, stamped[j].k)
         ELSE stamped[j]]
        \o SelectSeq(meta, LAMBDA member : ~HasKey(stamped, member.k))

\* the metadata storeContext stamps on chunk k (0-based) of n
StampedMetadata(meta, chunk, k, n, t) ==
  ObjSet(ObjSet(ObjSet(ObjSet(meta,
    MetaStr("text", Str(chunk))),
    MetaNum("chunkIndex", k)),
    MetaNum("totalChunks", n)),
    MetaStr("timestamp", IsoString(t)))

\* the id taken from the caller's metadata alone, the chunk's index left out
ChunkIdNoIndex(meta, chunk, k) == generateId(chunk, meta)

\* the id storeContext gives chunk k (0-based)
ChunkId(meta, chunk, k) == generateId(chunk, ObjSet(meta, MetaNum("chunkIndex", k)))

\* const vectors = chunks.map((chunk, i) => ({id, values, metadata}))
AssembleVectors(cs, embeddings, meta, t) ==
  [k \in 1..Len(cs) |->
     [id |-> ChunkId(meta, cs[k], k - 1),
      values |-> embeddings[k],
      metadata |-> StampedMetadata(meta, cs[k], k - 1, Len(cs), t)]]

\* vectors.slice(i, batchSize): the end of the batch not moved along with i
BatchFromZero(vs, from) == Slice(vs, from, BatchSize)

\* vectors.slice(i, i + batchSize)
Batch(vs, from) == Slice(vs, from, from + BatchSize)

\* index.upsert of one record: a record with the same id is overwritten
UpsertOne(idx, v) ==
  IF \E j \in 1..Len(idx) : idx[j].id = v.id
  THEN [j \in 1..Len(idx) |-> IF idx[j].id = v.id THEN v ELSE idx[j]]
  ELSE Append(idx, v)

\* index.upsert(batch)
RECURSIVE Upsert(_, _)
Upsert(idx, batch) ==
  IF Len(batch) = 0 THEN idx ELSE Upsert(UpsertOne(idx, batch[1]), Tail(batch))

\* the timestamps stamped on the vectors of one call
Timestamps(vs) == {Member(vs[k].metadata, "timestamp").s : k \in 1..Len(vs)}

\* vectors.map(v => v.id)
Ids(vs) == [k \in 1..Len(vs) |-> vs[k].id]

\* the error a failing embeddings.create raises, and the one a failing
\* index.upsert raises
ProviderError == "embeddings.create: quota exceeded"

IndexError == "index.upsert: network error"

\* the lengths of the texts storeContext is called with: no chunk, one
\* chunk, and enough chunks for two and for more batches
StoreLengths == {0, 1, MaxStoreLen - 6, MaxStoreLen}

\* the texts storeContext is called with: runs of "a", and a blank text
StoreTexts == {[k \in 1..n |-> "a"] : n \in StoreLengths} \cup {<<" ">>}

\* the metadata storeContext is called with: the default, and an object that
\* brings a chunkIndex, a totalChunks, a text and a timestamp of its own
StoreMetadata ==
  { << >>,
    <<MetaNum("chunkIndex", 7), MetaStr("project", "p"), MetaNum("totalChunks", 0),
      MetaStr("text", "mine"), MetaStr("timestamp", "then")>> }

\* storeContext(t, meta) is called: chunkText(text) is entered with its defaults
StoreCall(t, meta) ==
  /\ spc \in {"idle", "done", "failed"}
  /\ Len(runs) < MaxStoreRuns
  /\ text' = t
  /\ maxChunkSize' = DefaultMaxChunkSize
  /\ overlap' = DefaultOverlap
  /\ start' = 0
  /\ chunks' = << >>
  /\ slices' = << >>
  /\ iters' = 0
  /\ cpc' = "loop"
  /\ result' = << >>
  /\ spc' = "chunk"
  /\ metadata' = meta
  /\ vectors' = << >>
  /\ bi' = 0
  /\ upserts' = << >>
  /\ acked' = 0
  /\ returned' = << >>
  /\ UNCHANGED <<restVars, runs, index, cacheVars, serverVars>>

\* chunkText has returned: generateEmbeddings(chunks) is sent to the provider
StoreEmbed ==
  /\ spc = "chunk"
  /\ cpc = "done"
  /\ spc' = "awaitEmbed"
  /\ UNCHANGED <<metadata, vectors, bi, upserts, acked, returned, runs>>
  /\ UNCHANGED <<restVars, chunkVars, index, cacheVars, serverVars>>

\* the provider answers: the vectors are assembled
StoreEmbedOk ==
  /\ spc = "awaitEmbed"
  /\ vectors' = AssembleVectors(result, Embeddings(result), metadata, now)
  /\ bi' = 0
  /\ spc' = "upsert"
  /\ UNCHANGED <<metadata, upserts, acked, returned, runs>>
  /\ UNCHANGED <<restVars, chunkVars, index, cacheVars, serverVars>>

\* a call that rejected, as the history keeps it
\* raised: what the service raised; error: what storeContext rejected with
Rejected(raised, error) ==
  [ok |-> FALSE, text |-> << >>, metadata |-> << >>,
   ids |-> << >>, indexIds |-> {}, timestamps |-> {},
   raised |-> raised, error |-> error]

\* an await that rejects rethrows the error as it is
Rethrown(error) == error

\* the provider request rejects, and so does storeContext
StoreEmbedFail ==
  /\ spc = "awaitEmbed"
  /\ spc' = "failed"
  /\ runs' = Append(runs, Rejected(ProviderError, Rethrown(ProviderError)))
  /\ UNCHANGED <<metadata, vectors, bi, upserts, acked, returned>>
  /\ UNCHANGED <<restVars, chunkVars, index, cacheVars, serverVars>>

\* the batch sent without the await: the loop goes on to the next batch
StoreUpsertNoAwait ==
  /\ spc = "upsert"
  /\ bi < Len(vectors)
  /\ upserts' = Append(upserts, Batch(vectors, bi))
  /\ bi' = bi + BatchSize
  /\ UNCHANGED <<spc, metadata, vectors, acked, returned, runs>>
  /\ UNCHANGED <<restVars, chunkVars, index, cacheVars, serverVars>>

\* for (let i = 0; i < vectors.length; ...): the next batch is sent
StoreUpsert ==
  /\ spc = "upsert"
  /\ bi < Len(vectors)
  /\ upserts' = Append(upserts, Batch(vectors, bi))
  /\ spc' = "awaitUpsert"
  /\ UNCHANGED <<metadata, vectors, bi, acked, returned, runs>>
  /\ UNCHANGED <<restVars, chunkVars, index, cacheVars, serverVars>>

\* the rejected upsert followed by another try of the same batch
StoreUpsertRetry ==
  /\ spc = "awaitUpsert"
  /\ Len(upserts) < Len(vectors) + 2
  /\ spc' = "upsert"
  /\ UNCHANGED <<metadata, vectors, bi, upserts, acked, returned, runs>>
  /\ UNCHANGED <<restVars, chunkVars, index, cacheVars, serverVars>>

\* the index acknowledges the batch: i += batchSize
StoreUpsertOk ==
  /\ spc = "awaitUpsert"
  /\ index' = Upsert(index, upserts[Len(upserts)])
  /\ acked' = acked + 1
  /\ bi' = bi + BatchSize
  /\ spc' = "upsert"
  /\ UNCHANGED <<metadata, vectors, upserts, returned, runs>>
  /\ UNCHANGED <<restVars, chunkVars, cacheVars, serverVars>>

\* index.upsert rejects, and so does storeContext
StoreUpsertFail ==
  /\ spc = "awaitUpsert"
  /\ spc' = "failed"
  /\ runs' = Append(runs, Rejected(IndexError, Rethrown(IndexError)))
  /\ UNCHANGED <<metadata, vectors, bi, upserts, acked, returned>>
  /\ UNCHANGED <<restVars, chunkVars, index, cacheVars, serverVars>>

\* the batch loop ends: return vectors.map(v => v.id)
StoreReturn ==
  /\ spc = "upsert"
  /\ ~(bi < Len(vectors))
  /\ returned' = Ids(vectors)
  /\ spc' = "done"
  /\ runs' = Append(runs, [ok |-> TRUE, text |-> text, metadata |-> metadata,
                           ids |-> Ids(vectors),
                           indexIds |-> {index[j].id : j \in 1..Len(index)},
                           timestamps |-> Timestamps(vectors),
                           raised |-> "", error |-> ""])
  /\ UNCHANGED <<metadata, vectors, bi, upserts, acked>>
  /\ UNCHANGED <<restVars, chunkVars, index, cacheVars, serverVars>>

StoreInit ==
  ChunkIdle /\ CacheIdle /\ ServerIdle /\ index = << >> /\ StoreIdle /\ RestIdle

StoreNext ==
  \/ \E t \in StoreTexts, meta \in StoreMetadata : StoreCall(t, meta)
  \/ ChunkStep
  \/ ChunkReturn
  \/ StoreEmbed
  \/ StoreEmbedOk
  \/ StoreEmbedFail
  \/ StoreUpsert
  \/ StoreUpsertOk
  \/ StoreUpsertFail
  \/ StoreReturn
  \/ Tick

\* storeContext called again and again against one index, with time passing
SpecStore == StoreInit /\ [][StoreNext]_vars

----------------------------------------------------------------------------
(* The other tools of the MCP server: pinecone_stats, pinecone_remember *)
(* (listProjects, indexText) and the handler's default case               *)

\* the arguments pinecone_search is called with beside the other tools
ToolSearchArguments == {<<"q", "", 0>>}

\* the arguments {text, project, type} pinecone_remember is called with; an
\* absent type is ""
RememberArguments == {<<"q", "p", "">>, <<"m", "p", "code">>}

\* Math.random().toString(36).slice(2, 10)
RandomSuffixes == {"r1", "r2"}

\* the names of tools the server does not have
UnknownTools == {"pinecone_forget"}

\* const id = `ctx_${Date.now()}_${Math.random()...}`
RememberId(t, suffix) == "ctx_" \o ToString(t) \o "_" \o suffix

\* the record indexText upserts: {id, values, metadata: {text, project, type,
\* timestamp}}, in the shape the index keeps
RememberRecord(c) ==
  [id |-> c.id, text |-> c.query, project |-> c.project, type |-> c.type,
   timestamp |-> c.timestamp]

\* indexText has its embedding: the id is made and idx.upsert is sent
UpsertSent(c, embedding, t, suffix) ==
  [c EXCEPT !.pc = "indexUpsert", !.embedding = embedding,
            !.id = RememberId(t, suffix), !.timestamp = IsoString(t)]

\* pinecone_remember arrives: the handler calls indexText(args.text,
\* args.project, args.type || 'note'), which runs up to await getIndex()
RememberCall(p, t, proj, ty) ==
  /\ started < MaxCalls
  /\ IsNextSlot(p)
  /\ call' = [call EXCEPT ![p] =
       [NoToolCall EXCEPT !.tool = "pinecone_remember", !.query = t,
                          !.project = proj, !.type = StrOr(ty, "note"),
                          !.pc = "indexText",
                          !.afterFailure = (call[p].thrown # "")]]
  /\ started' = started + 1
  /\ UNCHANGED <<index, searchOrigin>>
  /\ UNCHANGED <<restVars, storeVars, chunkVars, cacheVars>>

\* indexText calls generateEmbedding(text), which runs up to its await: a hit
\* in embeddingCache returns at once and the upsert is sent
RememberEmbedding(p, suffix) ==
  /\ call[p].pc = "indexText"
  /\ LET input  == call[p].query
         cached == getCachedValue(embeddingCache, input, now)
     IN  /\ embeddingCache' = getCachedMap(embeddingCache, input, now)
         /\ call' = [call EXCEPT ![p] =
                       IF IsCached(cached)
                       THEN UpsertSent(@, cached[1], now, suffix)
                       ELSE [@ EXCEPT !.pc = "indexEmbed", !.nEmbed = @ + 1,
                                      !.embedAt = now, !.embedStatus = "pending"]]
  /\ UNCHANGED <<index, searchOrigin, started>>
  /\ UNCHANGED <<restVars, storeVars, chunkVars, now, searchCache, lastGet>>

\* the provider answers indexText's request: the embedding is cached, the id
\* is made and the upsert is sent
RememberEmbedOk(p, suffix) ==
  /\ call[p].pc = "indexEmbed"
  /\ LET input     == call[p].query
         embedding == Embedding(input)
     IN  /\ embeddingCache' = setCache(embeddingCache, input, embedding, now)
         /\ call' = [call EXCEPT ![p] =
                       UpsertSent([@ EXCEPT !.embedStatus = "ok"], embedding, now, suffix)]
  /\ UNCHANGED <<index, searchOrigin, started>>
  /\ UNCHANGED <<restVars, storeVars, chunkVars, now, searchCache, lastGet>>

\* the provider request of indexText rejects
RememberEmbedFail(p) ==
  /\ call[p].pc = "indexEmbed"
  /\ call' = [call EXCEPT ![p] =
                Caught([@ EXCEPT !.embedStatus = "failed"], "embeddings.create failed")]
  /\ UNCHANGED <<index, searchOrigin, started>>
  /\ UNCHANGED <<restVars, storeVars, chunkVars, cacheVars>>

\* the index acknowledges the upsert: return { id, success: true }
RememberUpsertOk(p) ==
  /\ call[p].pc = "indexUpsert"
  /\ index' = UpsertOne(index, RememberRecord(call[p]))
  /\ call' = [call EXCEPT ![p].pc = "done",
                           ![p].content = "Stored context with ID: " \o call[p].id]
  /\ UNCHANGED <<searchOrigin, started>>
  /\ UNCHANGED <<restVars, storeVars, chunkVars, cacheVars>>

\* idx.upsert rejects
RememberUpsertFail(p) ==
  /\ call[p].pc = "indexUpsert"
  /\ call' = [call EXCEPT ![p] = Caught(@, "idx.upsert failed")]
  /\ UNCHANGED <<index, searchOrigin, started>>
  /\ UNCHANGED <<restVars, storeVars, chunkVars, cacheVars>>

\* pinecone_stats arrives: listProjects sends idx.describeIndexStats()
StatsCall(p) ==
  /\ started < MaxCalls
  /\ IsNextSlot(p)
  /\ call' = [call EXCEPT ![p] =
       [NoToolCall EXCEPT !.tool = "pinecone_stats", !.pc = "awaitStats",
                          !.afterFailure = (call[p].thrown # "")]]
  /\ started' = started + 1
  /\ UNCHANGED <<index, searchOrigin>>
  /\ UNCHANGED <<restVars, storeVars, chunkVars, cacheVars>>

\* the index answers with its statistics
StatsOk(p) ==
  /\ call[p].pc = "awaitStats"
  /\ call' = [call EXCEPT ![p].pc = "done",
       ![p].content = "Pinecone Index Stats:\n- Total Vectors: " \o ToString(Len(index))]
  /\ UNCHANGED <<index, searchOrigin, started>>
  /\ UNCHANGED <<restVars, storeVars, chunkVars, cacheVars>>

\* idx.describeIndexStats rejects
StatsFail(p) ==
  /\ call[p].pc = "awaitStats"
  /\ call' = [call EXCEPT ![p] = Caught(@, "idx.describeIndexStats failed")]
  /\ UNCHANGED <<index, searchOrigin, started>>
  /\ UNCHANGED <<restVars, storeVars, chunkVars, cacheVars>>

\* a call names a tool the switch has no case for: the default case answers
UnknownCall(p, name) ==
  /\ started < MaxCalls
  /\ IsNextSlot(p)
  /\ call' = [call EXCEPT ![p] =
       [NoToolCall EXCEPT !.tool = name, !.pc = "done", !.isError = TRUE,
                          !.content = "Unknown tool: " \o name,
                          !.afterFailure = (call[p].thrown # "")]]
  /\ started' = started + 1
  /\ UNCHANGED <<index, searchOrigin>>
  /\ UNCHANGED <<restVars, storeVars, chunkVars, cacheVars>>

ToolsNext ==
  \/ \E p \in Procs, a \in ToolSearchArguments : SearchCall(p, a[1], a[2], a[3])
  \/ \E p \in Procs : GenerateEmbedding(p)
  \/ \E p \in Procs : EmbedOk(p)
  \/ \E p \in Procs : EmbedFail(p)
  \/ \E p \in Procs : QueryOk(p)
  \/ \E p \in Procs : QueryFail(p)
  \/ Tick
  \/ \E p \in Procs, a \in RememberArguments : RememberCall(p, a[1], a[2], a[3])
  \/ \E p \in Procs, suffix \in RandomSuffixes : RememberEmbedding(p, suffix)
  \/ \E p \in Procs, suffix \in RandomSuffixes : RememberEmbedOk(p, suffix)
  \/ \E p \in Procs : RememberEmbedFail(p)
  \/ \E p \in Procs : RememberUpsertOk(p)
  \/ \E p \in Procs : RememberUpsertFail(p)
  \/ \E p \in Procs : StatsCall(p)
  \/ \E p \in Procs : StatsOk(p)
  \/ \E p \in Procs : StatsFail(p)
  \/ \E p \in Procs, name \in UnknownTools : UnknownCall(p, name)

\* the server answering calls of all its tools
SpecTools == ServerInit /\ [][ToolsNext]_vars

\* the search the server has answered before the calls that are followed
WarmArguments == <<"q", "", 5>>

\* the server after it has answered pinecone_search once, at time 0: the
\* embedding of the query and the formatted results are in the caches
WarmInit ==
  /\ ChunkIdle /\ StoreIdle /\ RestIdle
  /\ index = InitialIndex
  /\ now = 0
  /\ lastGet = NoCall
  /\ LET a   == WarmArguments
         key == cacheKey(a[1], a[2], a[3])
     IN  /\ embeddingCache = setCache(<< >>, a[1], Embedding(a[1]), 0)
         /\ searchCache =
              setCache(<< >>, key, FormatResults(IndexQuery(InitialIndex, a[2], a[3])), 0)
         /\ searchOrigin = {<<key, a>>}
  /\ call = [p \in Procs |-> NoToolCall]
  /\ started = 0

\* the server answering calls of all its tools after an answered search
SpecWarm == WarmInit /\ [][ToolsNext]_vars

----------------------------------------------------------------------------
(* getRelevantContext and formatContextForPrompt of src/context.js *)

\* obj[k] of a metadata object: the string of the member, or Null (undefined)
Prop(obj, k) == IF HasKey(obj, k) THEN Some(Member(obj, k).s) ELSE Null

\* one element of what searchContext returns: text is match.metadata?.text
Result(id, hasMetadata, meta) ==
  [id |-> id, hasMetadata |-> hasMetadata, metadata |-> meta,
   text |-> IF hasMetadata THEN Prop(meta, "text") ELSE Null]

\* the results a search may bring: one of each stored kind, a type of no
\* known kind, a record without type, one without metadata, one whose type
\* is the name of a bucket's inherited property, and a code record that
\* names no file
SampleResults ==
  { Result("c1", TRUE, <<MetaStr("text", "x"), MetaStr("type", "code"),
                         MetaStr("filePath", "a.js")>>),
    Result("v1", TRUE, <<MetaStr("text", "hi"), MetaStr("type", "conversation"),
                         MetaStr("role", "user")>>),
    Result("d1", TRUE, <<MetaStr("text", "y"), MetaStr("type", "documentation"),
                         MetaStr("title", "T")>>),
    Result("w1", TRUE, <<MetaStr("text", "z"), MetaStr("type", "weird")>>),
    Result("n1", TRUE, <<MetaStr("text", "n")>>),
    Result("m1", FALSE, << >>),
    Result("p1", TRUE, <<MetaStr("text", "q"), MetaStr("type", "constructor")>>),
    Result("c2", TRUE, <<MetaStr("type", "code")>>) }

\* the names every object literal inherits from Object.prototype
ObjectPrototypeKeys ==
  {"constructor", "toString", "valueOf", "hasOwnProperty", "__proto__"}

\* result.metadata?.type || 'other'
TypeOf(r) ==
  LET t == IF r.hasMetadata THEN Prop(r.metadata, "type") ELSE Null
  IN  IF t = Null \/ t = Some("") THEN "other" ELSE t[1]

\* what grouped[type] is: one of the four arrays, a value inherited from
\* Object.prototype (truthy, and without a push method), or undefined
GroupedLookup(t) ==
  IF t \in DOMAIN EmptyGroups THEN "array"
  ELSE IF t \in ObjectPrototypeKeys THEN "inherited"
  ELSE "undefined"

\* the bucket the loop body pushes result r to, or "throw" where
\* grouped[type].push is not a function
BucketOf(r) ==
  LET t == TypeOf(r)
      found == GroupedLookup(t)
  IN  IF found = "array" THEN t
      ELSE IF found = "inherited" THEN "throw"
      ELSE "other"

\* `${x}` of a value that may be undefined
TemplateStr(opt) == IF opt = Null THEN "undefined" ELSE opt[1]

\* the header with the documentation rule left out
HeaderNoDoc(r) ==
  LET meta == IF r.hasMetadata THEN r.metadata ELSE << >>
      type == Prop(meta, "type")
  IN  IF type = Some("code")
        THEN "[Code: " \o TemplateStr(Prop(meta, "filePath")) \o "]"
      ELSE IF type = Some("conversation")
        THEN "[" \o TemplateStr(Prop(meta, "role")) \o "]"
      ELSE "[Context]"

\* the header formatContextForPrompt gives a result: the first rule that
\* matches meta.type, with meta = r.metadata || {}
Header(r) ==
  LET meta == IF r.hasMetadata THEN r.metadata ELSE << >>
      type == Prop(meta, "type")
  IN  IF type = Some("code")
        THEN "[Code: " \o TemplateStr(Prop(meta, "filePath")) \o "]"
      ELSE IF type = Some("conversation")
        THEN "[" \o TemplateStr(Prop(meta, "role")) \o "]"
      ELSE IF type = Some("documentation")
        THEN "[Doc: " \o TemplateStr(Prop(meta, "title")) \o "]"
      ELSE "[Context]"

\* `${header}\n${r.text}`
Section(r) == Header(r) \o "\n" \o TemplateStr(r.text)

\* the argument of sections.join
Separator == "\n\n---\n\n"

\* Array.prototype.join
RECURSIVE Join(_, _)
Join(parts, sep) ==
  IF Len(parts) = 0 THEN ""
  ELSE IF Len(parts) = 1 THEN parts[1]
  ELSE parts[1] \o sep \o Join(Tail(parts), sep)

\* formatContextForPrompt(results)
formatContextForPrompt(rs) ==
  IF Len(rs) = 0 THEN ""
  ELSE Join([k \in 1..Len(rs) |-> Section(rs[k])], Separator)

\* the result lists getRelevantContext gets from searchContext
ResultLists == UNION {[1..n -> SampleResults] : n \in 0..MaxResults}

\* one iteration of for (const result of results); a push on a value that
\* has no push method throws a TypeError, which ends the call
GroupStep ==
  /\ gpc = "loop"
  /\ gi < Len(results)
  /\ LET r == results[gi + 1]
         b == BucketOf(r)
     IN  IF b = "throw"
         THEN /\ gpc' = "thrown"
              /\ UNCHANGED <<grouped, gi>>
         ELSE /\ grouped' = [grouped EXCEPT ![b] = Append(@, r)]
              /\ gi' = gi + 1
              /\ gpc' = gpc
  /\ UNCHANGED <<results, contextString>>
  /\ UNCHANGED <<coreVars, cli>>

\* the loop is over: return { all: results, grouped, contextString }
GroupReturn ==
  /\ gpc = "loop"
  /\ gi = Len(results)
  /\ contextString' = formatContextForPrompt(results)
  /\ gpc' = "done"
  /\ UNCHANGED <<results, grouped, gi>>
  /\ UNCHANGED <<coreVars, cli>>

\* searchContext has returned the results to getRelevantContext
GroupInit ==
  /\ \E rs \in ResultLists : results = rs
  /\ grouped = EmptyGroups
  /\ gi = 0
  /\ gpc = "loop"
  /\ contextString = ""
  /\ cli = NoCli
  /\ ChunkIdle /\ CacheIdle /\ ServerIdle /\ index = << >> /\ StoreIdle

GroupNext == GroupStep \/ GroupReturn

\* getRelevantContext run on every result list of the bounds
SpecGroup == GroupInit /\ [][GroupNext]_vars

----------------------------------------------------------------------------
(* The command line programs: scripts/index.js, search.js, setup-index.js, *)
(* test-connection.js and deployment-sync.js                               *)

\* the command line programs
Scripts == {"index", "search", "setup", "test-connection", "deployment-sync"}

\* the keys config reads from the environment and validateConfig() requires
RequiredKeys == {"PINECONE_API_KEY", "OPENAI_API_KEY"}

\* the key a client of a service is constructed with
KeyOf(service) ==
  IF service = "openai" THEN "OPENAI_API_KEY" ELSE "PINECONE_API_KEY"

\* the services an awaited call of a command line program sends requests to
Services(fn) ==
  CASE fn \in {"createIndexIfNotExists", "getIndexStats", "listIndexes"} ->
         {"pinecone"}
    [] fn = "generateEmbedding" -> {"openai"}
    [] OTHER -> {"openai", "pinecone"}

\* the regular files below the directory given with --dir, in walk order
DirFiles ==
  << [path |-> "d/a.js", ext |-> "js"],
     [path |-> "d/b.md", ext |-> "md"],
     [path |-> "d/c.txt", ext |-> "txt"] >>

\* (args.ext || 'js,ts,py,md').split(',').map(e => `.${e.trim()}`), as the
\* set of the extensions without their dot; an absent --ext is ""
Extensions(ext) == IF ext = "" THEN {"js", "ts", "py", "md"} ELSE {ext}

\* getAllFiles(dirPath, extensions)
getAllFiles(files, extensions) ==
  SelectSeq(files, LAMBDA f : f.ext \in extensions)

\* the command lines of the index program: every option given or not
\* (an option not given is "")
IndexArgs ==
  [file : {"", "f.js"}, text : {"", "some text"}, dir : {"", "d"},
   type : {"", "doc"}, ext : {"", "md"}, required : {TRUE}]

\* the command lines of the other programs: with their required arguments
\* or without them
OtherArgs ==
  [file : {""}, text : {""}, dir : {""}, type : {""}, ext : {""},
   required : BOOLEAN]

\* the test main() makes of its arguments before it prints the usage and
\* calls process.exit(1)
ArgsMissing(script, args) ==
  CASE script = "index" -> args.file = "" /\ args.text = ""
    [] script \in {"search", "deployment-sync"} -> ~args.required
    [] OTHER -> FALSE

\* one awaited call of main()
Work(fn, target) == [fn |-> fn, target |-> target]

\* the awaited calls main() of the index program makes, in order
IndexWork(args) ==
  (IF args.file = "" THEN << >>
   ELSE IF args.type = "doc" THEN <<Work("storeDocumentation", args.file)>>
   ELSE <<Work("storeCodeFile", args.file)>>)
  \o (IF args.text = "" THEN << >> ELSE <<Work("storeContext", args.text)>>)
  \o (IF args.dir = "" THEN << >>
      ELSE LET files == getAllFiles(DirFiles, Extensions(args.ext))
           IN  [k \in 1..Len(files) |-> Work("storeCodeFile", files[k].path)])

\* the awaited calls main() makes, in order
WorkOf(script, args) ==
  CASE script = "index" -> IndexWork(args)
    [] script = "search" -> <<Work("getRelevantContext", "query")>>
    [] script = "setup" ->
         <<Work("createIndexIfNotExists", ""), Work("getIndexStats", "")>>
    [] script = "test-connection" ->
         <<Work("listIndexes", ""), Work("generateEmbedding", "")>>
    [] script = "deployment-sync" ->
         <<Work("storeDeployment", ""), Work("storeAsDecision", "")>>

\* the awaited calls of test-connection.js stand in a try whose catch prints
\* the error and calls process.exit(1)
CatchesItself(script) == script = "test-connection"

\* process.exit(code)
Exit(c, code) == [c EXCEPT !.pc = "exited", !.exitCode = code]

\* the event loop runs empty: the process ends with code 0, as
\* process.exitCode was never set
EndOfProcess(c) == [c EXCEPT !.pc = "exited", !.exitCode = 0]

\* main().catch(console.error): the error is printed, nothing else happens,
\* and the process ends when the event loop is empty
MainCatch(c, error) ==
  EndOfProcess([c EXCEPT !.rejected = TRUE, !.stderr = Append(@, error)])

\* validateConfig(): a missing key is reported and the process exits with 1
CliValidate ==
  /\ cli.pc = "start"
  /\ cli.script \in Scripts
  /\ cli' = IF cli.configOk
            THEN [cli EXCEPT !.pc = "args"]
            ELSE Exit([cli EXCEPT !.stderr =
                         Append(@, "Missing required environment variables")], 1)
  /\ UNCHANGED <<coreVars, groupVars>>

\* parseArgs() and the test of the required arguments: the usage is printed
\* and the process exits with 1, or main() goes on to its work
CliArgs ==
  /\ cli.pc = "args"
  /\ cli' = IF ArgsMissing(cli.script, cli.args)
            THEN Exit(cli, 1)
            ELSE [cli EXCEPT !.pc = "work", !.todo = WorkOf(cli.script, cli.args)]
  /\ UNCHANGED <<coreVars, groupVars>>

\* the next awaited call of main() resolves
CliWorkOk ==
  /\ cli.pc = "work"
  /\ cli.todo # << >>
  /\ cli' = [cli EXCEPT !.done = Append(@, Head(cli.todo)), !.todo = Tail(@),
                         !.network = @ \cup Services(Head(cli.todo).fn)]
  /\ UNCHANGED <<coreVars, groupVars>>

\* the next awaited call of main() rejects: test-connection.js catches the
\* error itself, prints it and exits with 1; in the other programs main()
\* rejects and the error reaches main().catch(console.error)
CliWorkFail ==
  /\ cli.pc = "work"
  /\ cli.todo # << >>
  /\ LET error == "Error: " \o Head(cli.todo).fn \o " failed"
     IN  cli' = IF CatchesItself(cli.script)
                THEN Exit([cli EXCEPT !.stderr = Append(@, error)], 1)
                ELSE MainCatch(cli, error)
  /\ UNCHANGED <<coreVars, groupVars>>

\* main() resolves: the process ends
CliFinish ==
  /\ cli.pc = "work"
  /\ cli.todo = << >>
  /\ cli' = EndOfProcess(cli)
  /\ UNCHANGED <<coreVars, groupVars>>

\* the tools of the MCP server
McpTools == {"pinecone_search", "pinecone_stats", "pinecone_remember"}

\* the requests the handler of a tool awaits, in order: the method called
\* and the service whose lazily constructed client sends it
McpWork(tool) ==
  CASE tool = "pinecone_search" ->
         <<Work("embeddings.create", "openai"),
           Work("query", "pinecone")>>
    [] tool = "pinecone_remember" ->
         <<Work("embeddings.create", "openai"),
           Work("upsert", "pinecone")>>
    [] OTHER -> <<Work("describeIndexStats", "pinecone")>>

\* main() of the MCP server: the transport is connected and the server
\* announces itself; config is read from the environment and not examined
McpStart ==
  /\ cli.pc = "start"
  /\ cli.script = "mcp-server"
  /\ cli' = [cli EXCEPT !.pc = "serving",
                         !.stderr = Append(@, "Pinecone MCP Server running")]
  /\ UNCHANGED <<coreVars, groupVars>>

\* a tool call arrives at the handler
McpRequest ==
  /\ cli.pc = "serving"
  /\ \E tool \in McpTools :
       cli' = [cli EXCEPT !.pc = "handling", !.todo = McpWork(tool),
                          !.done = << >>]
  /\ UNCHANGED <<coreVars, groupVars>>

\* the next request of the handler is sent by a client constructed with its
\* key, and the service answers it
McpCallOk ==
  /\ cli.pc = "handling"
  /\ cli.todo # << >>
  /\ KeyOf(Head(cli.todo).target) \notin cli.missing
  /\ cli' = [cli EXCEPT !.done = Append(@, Head(cli.todo)), !.todo = Tail(@),
                         !.network = @ \cup {Head(cli.todo).target}]
  /\ UNCHANGED <<coreVars, groupVars>>

\* the next request of the handler fails and the handler's catch answers
\* with isError: the service rejects a request sent with the key; with
\* apiKey undefined either the construction of the client throws or the
\* request is sent and refused
McpCallFail ==
  /\ cli.pc = "handling"
  /\ cli.todo # << >>
  /\ LET service == Head(cli.todo).target
     IN  \E sent \in (IF KeyOf(service) \in cli.missing THEN BOOLEAN
                       ELSE {TRUE}) :
           cli' = [cli EXCEPT !.pc = "serving", !.todo = << >>,
                              !.network = IF sent THEN @ \cup {service} ELSE @]
  /\ UNCHANGED <<coreVars, groupVars>>

\* the handler returns its answer and the server waits for the next call
McpReply ==
  /\ cli.pc = "handling"
  /\ cli.todo = << >>
  /\ cli' = [cli EXCEPT !.pc = "serving"]
  /\ UNCHANGED <<coreVars, groupVars>>

\* one of the entry points is started, with or without its configuration
CliInit ==
  /\ \E script \in Scripts \cup {"mcp-server"}, missing \in SUBSET RequiredKeys :
       \E args \in (IF script = "index" THEN IndexArgs ELSE OtherArgs) :
         cli = [NoCli EXCEPT !.script = script, !.args = args,
                             !.configOk = (missing = {}),
                             !.missing = missing, !.pc = "start"]
  /\ GroupIdle
  /\ ChunkIdle /\ CacheIdle /\ ServerIdle /\ index = << >> /\ StoreIdle

CliNext ==
  \/ CliValidate \/ CliArgs \/ CliWorkOk \/ CliWorkFail \/ CliFinish
  \/ McpStart \/ McpRequest \/ McpCallOk \/ McpCallFail \/ McpReply

\* every program run on every command line of the bounds
SpecCli == CliInit /\ [][CliNext]_vars

----------------------------------------------------------------------------
(* Properties of the slices chunkText takes *)

\* the offset at which slice k of the call ends: text.slice stops at the end
\* of the text
SliceEnd(k) == Min(slices[k][2], Len(text))

\* the offset at which slice k of the call starts
SliceStart(k) == slices[k][1]

\* the call is one the overlap rule speaks of: a text longer than one chunk,
\* and 0 < overlap < maxChunkSize / 2
OverlapCase ==
  /\ Len(text) > maxChunkSize
  /\ 0 < overlap
  /\ 2 * overlap < maxChunkSize

\* C11: in a chunkText call on a text longer than one chunk, with
\* 0 < overlap < maxChunkSize / 2, every slice after the first starts exactly
\* overlap characters before the end of the slice before it, and so before
\* that end, and when the call is done every character of the text lies in
\* some slice
C11_SlicesOverlap ==
  OverlapCase =>
    /\ \A k \in 1..(Len(slices) - 1) :
         /\ SliceStart(k + 1) = SliceEnd(k) - overlap
         /\ SliceStart(k + 1) < SliceEnd(k)
    /\ cpc = "done" =>
         \A c \in 0..(Len(text) - 1) :
           \E k \in 1..Len(slices) : SliceStart(k) <= c /\ c < SliceEnd(k)

----------------------------------------------------------------------------
(* Properties of storeContext *)

Ceil(n, b) == (n + b - 1) \div b

RECURSIVE Flatten(_)
Flatten(batches) ==
  IF Len(batches) = 0 THEN << >> ELSE batches[1] \o Flatten(Tail(batches))

\* C4: a storeContext call over N chunks sends ceil(N / batchSize) upserts; no
\* upsert carries more than batchSize vectors, every upsert but the last
\* carries exactly batchSize, and the batches put end to end in call order are
\* the assembled vectors, which follow the chunks in order
C4_BatchedUpserts ==
  /\ \A k \in 1..Len(upserts) : Len(upserts[k]) <= BatchSize
  /\ spc = "done" =>
       /\ Len(vectors) = Len(result)
       /\ Len(upserts) = Ceil(Len(result), BatchSize)
       /\ acked = Len(upserts)
       /\ \A k \in 1..(Len(upserts) - 1) : Len(upserts[k]) = BatchSize
       /\ Flatten(upserts) = vectors
       /\ \A k \in 1..Len(vectors) :
            /\ Member(vectors[k].metadata, "text").s = Str(result[k])
            /\ Member(vectors[k].metadata, "chunkIndex").n = k - 1

\* a call that sent more than one upsert, the last of them short
C4_Witness ==
  /\ spc = "done"
  /\ Len(upserts) >= 2
  /\ Len(upserts[Len(upserts)]) < BatchSize
  /\ Len(upserts[Len(upserts)]) > 0

\* two calls in a row that both returned, with the same text and metadata
SameCallTwice(k) ==
  /\ runs[k].ok
  /\ runs[k + 1].ok
  /\ runs[k].text = runs[k + 1].text
  /\ runs[k].metadata = runs[k + 1].metadata

\* C5: storeContext called twice with the same text and the same metadata
\* returns the same ids both times and leaves the index with the same set of
\* record ids as after the first call; no id is held by two records, and the
\* records of the call that just returned are the ones in the index
C5_ReindexIdempotent ==
  /\ \A k \in 1..(Len(runs) - 1) :
       SameCallTwice(k) =>
         /\ runs[k + 1].ids = runs[k].ids
         /\ runs[k + 1].indexIds = runs[k].indexIds
  /\ \A j1, j2 \in 1..Len(index) : index[j1].id = index[j2].id => j1 = j2
  /\ spc = "done" =>
       \A k \in 1..Len(vectors) : \E j \in 1..Len(index) : index[j] = vectors[k]

\* the same text stored twice, at different times, in more than one chunk
C5_Witness ==
  \E k \in 1..(Len(runs) - 1) :
    /\ SameCallTwice(k)
    /\ Len(runs[k].ids) >= 2
    /\ runs[k].timestamps # runs[k + 1].timestamps

\* C6: generateId separates the chunks of one document: for a chunk of the
\* call and its metadata, two different chunk indexes give two different ids
\* (looked at when the chunks are known and the ids are about to be made), and
\* so the ids one storeContext call assembles and returns are pairwise
\* distinct
C6_IdsSeparateChunks ==
  /\ spc = "awaitEmbed" =>
       \A k \in 1..Len(result) : \A i1, i2 \in 0..Len(result) :
         i1 < i2 => ChunkId(metadata, result[k], i1) # ChunkId(metadata, result[k], i2)
  /\ \A k1, k2 \in 1..Len(vectors) : vectors[k1].id = vectors[k2].id => k1 = k2
  /\ \A k1, k2 \in 1..Len(returned) : returned[k1] = returned[k2] => k1 = k2

\* a call that returned ids for two chunks of identical text
C6_Witness ==
  /\ spc = "done"
  /\ Len(returned) >= 2
  /\ \E k1, k2 \in 1..Len(result) : k1 # k2 /\ result[k1] = result[k2]

----------------------------------------------------------------------------
(* Properties of getRelevantContext and formatContextForPrompt *)

\* the bucket the grouping rule names for a result: its type if that is
\* conversation, code or documentation, and other for everything else
NamedBucket(r) ==
  LET t == IF r.hasMetadata THEN Prop(r.metadata, "type") ELSE Null
  IN  IF t \in {Some("conversation"), Some("code"), Some("documentation")}
      THEN t[1] ELSE "other"

\* the elements of rs whose named bucket is b, in the order of rs
RECURSIVE Pick(_, _)
Pick(rs, b) ==
  IF Len(rs) = 0 THEN << >>
  ELSE IF NamedBucket(rs[1]) = b THEN <<rs[1]>> \o Pick(Tail(rs), b)
  ELSE Pick(Tail(rs), b)

\* C12: getRelevantContext places every result in exactly one of the four
\* buckets, whatever its type: the call does not throw, and when it returns
\* each bucket holds, in the order of the result list, the results of its
\* type (other: those of any further type or of none), so that the bucket
\* lengths add up to the length of the list
C12_GroupingPartitions ==
  /\ gpc # "thrown"
  /\ gpc = "done" =>
       /\ \A b \in DOMAIN EmptyGroups : grouped[b] = Pick(results, b)
       /\ Len(grouped.conversation) + Len(grouped.code)
            + Len(grouped.documentation) + Len(grouped.other) = Len(results)

\* the header the formatting rule names for a result
NamedHeader(r) ==
  LET meta == IF r.hasMetadata THEN r.metadata ELSE << >>
      b == NamedBucket(r)
  IN  CASE b = "code" -> "[Code: " \o TemplateStr(Prop(meta, "filePath")) \o "]"
        [] b = "conversation" -> "[" \o TemplateStr(Prop(meta, "role")) \o "]"
        [] b = "documentation" -> "[Doc: " \o TemplateStr(Prop(meta, "title")) \o "]"
        [] OTHER -> "[Context]"

\* the sections of the first n results, each after a separator but the first
RECURSIVE NamedSections(_, _)
NamedSections(rs, n) ==
  IF n = 0 THEN ""
  ELSE NamedSections(rs, n - 1) \o (IF n = 1 THEN "" ELSE Separator)
         \o NamedHeader(rs[n]) \o "\n" \o TemplateStr(rs[n].text)

RECURSIVE SectionChars(_, _)
SectionChars(rs, n) ==
  IF n = 0 THEN 0
  ELSE SectionChars(rs, n - 1)
         + Len(NamedHeader(rs[n])) + 1 + Len(TemplateStr(rs[n].text))

\* C13: the contextString of a returned call is empty for an empty result
\* list, and for n >= 1 results it is their n sections in result order with
\* n - 1 separators between them, every section headed [Code: <filePath>],
\* [<role>], [Doc: <title>] or [Context] as its type says
C13_FormatSections ==
  gpc = "done" =>
    /\ Len(results) = 0 => contextString = ""
    /\ contextString = NamedSections(results, Len(results))
    /\ Len(results) >= 1 =>
         Len(contextString) = SectionChars(results, Len(results))
                                + (Len(results) - 1) * Len(Separator)

\* a returned call with a code, a documentation and an untyped result
C13_Witness ==
  /\ gpc = "done"
  /\ Len(results) >= 3
  /\ \E k1, k2, k3 \in 1..Len(results) :
       /\ NamedBucket(results[k1]) = "code"
       /\ NamedBucket(results[k2]) = "documentation"
       /\ ~results[k3].hasMetadata

----------------------------------------------------------------------------
(* Properties of chunkText *)

\* the chunks a text that fits one window should give: [text.trim()], or []
OneChunk(s) == IF Trim(s) = << >> THEN << >> ELSE <<Trim(s)>>

\* C2: with the default maxChunkSize and overlap, a text no longer than
\* maxChunkSize comes back as the single chunk text.trim(), or as no chunk
\* when it is blank; never as two chunks.
C2_ShortTextOneChunk ==
  (/\ cpc = "done"
   /\ maxChunkSize = DefaultMaxChunkSize
   /\ overlap = DefaultOverlap
   /\ Len(text) <= maxChunkSize)
    => result = OneChunk(text)

\* C10: every chunk chunkText returns is non-empty and at most maxChunkSize
\* characters long, whatever the text and the parameters.
C10_ChunksBounded ==
  cpc = "done" =>
    \A i \in 1..Len(result) :
      Len(result[i]) > 0 /\ Len(result[i]) <= maxChunkSize

----------------------------------------------------------------------------
(* Properties of the caches *)

\* C1: a cache never holds more than the limit (100) of entries.
C1_CacheWithinLimit ==
  /\ Len(embeddingCache) <= CacheLimit
  /\ Len(searchCache) <= CacheLimit

\* the getCached call just made found an entry under its key
LookupFound == lastGet.kind = "get" /\ lastGet.found # << >>

\* C3: a lookup before setAt + TTL of an entry that is still in the map
\* returns the value it was set with; a lookup after setAt + TTL returns
\* null and leaves the map without the key; no returned value belongs to an
\* entry whose expiresAt is earlier than the time of the lookup.
C3_TtlLookup ==
  LookupFound =>
    LET e == lastGet.found[1]
    IN  /\ lastGet.at < e.setAt + CACHE_TTL => lastGet.value = Some(e.setValue)
        /\ lastGet.at > e.setAt + CACHE_TTL =>
             lastGet.value = Null /\ ~Has(embeddingCache, lastGet.key)
        /\ lastGet.value # Null => e.expiresAt >= lastGet.at

\* a lookup found an entry past its TTL while other entries were in the map
C3_Witness ==
  /\ LookupFound
  /\ lastGet.at > lastGet.found[1].setAt + CACHE_TTL
  /\ lastGet.value = Null
  /\ Len(embeddingCache) > 0

----------------------------------------------------------------------------
(* Properties of the MCP server *)

\* call p is the tool call this step starts
Starts(p) == started' = started + 1 /\ IsNextSlot(p)

\* searchCache holds an entry for the key that has not expired
Unexpired(cache, key, t) == Has(cache, key) /\ t <= Get(cache, key).expiresAt

C8_CacheKeyedByTuple ==
  [][\A p \in Procs :
       (Starts(p) /\ call'[p].hit) =>
         <<call'[p].key, SearchArgs(call'[p])>> \in searchOrigin
    ]_vars

\* C9: of two generateEmbedding calls with the same text inside one TTL
\* window (no entry is evicted in this specification: the texts are fewer
\* than the limit), the provider is called for at most one, also when the
\* second starts while the first's request is pending.  A request that
\* failed is not counted.
C9_ProviderOncePerWindow ==
  \A p, q \in Procs :
    (/\ p # q
     /\ call[p].query = call[q].query
     /\ call[p].embedStatus \in {"pending", "ok"}
     /\ call[q].embedStatus \in {"pending", "ok"}
     /\ call[p].embedAt <= call[q].embedAt)
      => call[q].embedAt > call[p].embedAt + CACHE_TTL

----------------------------------------------------------------------------
(* Properties of the tool handler *)

\* the tools the switch of the handler has a case for
KnownTools == {"pinecone_search", "pinecone_stats", "pinecone_remember"}

\* C14: every tool call ends with a response. A call in which the embedding
\* provider or the index fails ends with an isError content block that
\* carries the error's message, the handler's promise never rejects, the
\* failure leaves the caches and the index as they were and the call's slot
\* free for the next call; a call of an unknown tool is answered with
\* isError at once
C14_FailuresAnswered ==
  [][\A p \in Procs :
       /\ call'[p].pc # "rejected"
       /\ (call[p].pc \notin {"idle", "done"} /\ call'[p].thrown # "") =>
            /\ call'[p].pc = "done"
            /\ call'[p].isError
            /\ call'[p].content = "Error: " \o call'[p].thrown
            /\ Free(p)'
            /\ UNCHANGED <<index, embeddingCache, searchCache>>
       /\ (Starts(p) /\ call'[p].tool \notin KnownTools) =>
            /\ call'[p].pc = "done"
            /\ call'[p].isError
            /\ call'[p].content = "Unknown tool: " \o call'[p].tool
    ]_vars

\* a pinecone_remember call answered without error after the call before it
\* had failed
C14_Witness ==
  \E p \in Procs :
    /\ call[p].pc = "done"
    /\ call[p].afterFailure
    /\ ~call[p].isError
    /\ call[p].tool = "pinecone_remember"

\* the records pinecone_remember has put into the index
Remembered == SubSeq(index, Len(InitialIndex) + 1, Len(index))

\* the id storeContext(text, {project, type}) gives the one chunk of a short
\* text
StoreIdOf(rec) ==
  ChunkId(<<MetaStr("project", rec.project), MetaStr("type", rec.type)>>,
          <<rec.text>>, 0)

\* C15: pinecone_remember stores as storeContext(text, {project, type}) does:
\* every record it puts into the index carries the content-addressed id of
\* its chunk and metadata, and so remembering the same text, project and type
\* again leaves one record, not two
C15_RememberIsStore ==
  /\ \A j \in 1..Len(Remembered) : Remembered[j].id = StoreIdOf(Remembered[j])
  /\ \A j1, j2 \in 1..Len(Remembered) :
       ( /\ Remembered[j1].text = Remembered[j2].text
         /\ Remembered[j1].project = Remembered[j2].project
         /\ Remembered[j1].type = Remembered[j2].type ) => j1 = j2

----------------------------------------------------------------------------
(* Properties of the batch loop of storeContext *)

\* the call just ended because index.upsert raised an error
UpsertFailed ==
  /\ spc = "failed"
  /\ Len(runs) > 0
  /\ runs[Len(runs)].raised = IndexError

\* C16: no upsert is tried twice: the upserts sent are the batches of the
\* vector list, each once and in order. When the upsert of batch k fails, the
\* call rejects with the error the index raised and returns no ids, batch k
\* is the last one sent, and the records of the batches before it are in the
\* index
C16_UpsertFailureSurfaces ==
  /\ \A j \in 1..Len(upserts) : upserts[j] = Batch(vectors, (j - 1) * BatchSize)
  /\ UpsertFailed =>
       /\ ~runs[Len(runs)].ok
       /\ runs[Len(runs)].error = IndexError
       /\ runs[Len(runs)].ids = << >>
       /\ returned = << >>
       /\ Len(upserts) = acked + 1
       /\ \A j \in 1..acked : \A k \in 1..Len(upserts[j]) :
            \E r \in 1..Len(index) : index[r] = upserts[j][k]

\* the second upsert of a call failed with a batch still to send
C16_Witness ==
  /\ UpsertFailed
  /\ acked = 1
  /\ Len(vectors) > 2 * BatchSize

\* C17: the upserts of one storeContext call are strictly sequential: at most
\* one of them is not yet acknowledged, a batch is sent only when every batch
\* sent before it has been acknowledged, and the index changes only by the
\* acknowledgement of the one batch outstanding, so the batches become visible
\* in the order they were sent
C17_UpsertsSequential ==
  [][/\ Len(upserts') - acked' \in {0, 1}
     /\ Len(upserts') > Len(upserts) =>
          /\ acked = Len(upserts)
          /\ Len(upserts') = Len(upserts) + 1
     /\ index' # index =>
          /\ Len(upserts) = acked + 1
          /\ acked' = acked + 1
          /\ index' = Upsert(index, upserts[acked + 1])
    ]_vars

\* the second batch of a call is outstanding, the first acknowledged
C17_Witness ==
  /\ spc = "awaitUpsert"
  /\ acked = 1
  /\ Len(upserts) = 2

----------------------------------------------------------------------------
(* Properties of the records storeContext assembles *)

\* the vectors of the call have been assembled
Assembled == spc \in {"upsert", "awaitUpsert", "done"}

\* C18: a storeContext call with n chunks assembles n records; record i
\* (from 0) has chunkIndex i, totalChunks n and the text of chunk i in its
\* metadata, whatever keys the caller's metadata brings, and the embedding of
\* chunk i as its values; the call returns the n ids in chunk order, and
\* every record in the index has chunkIndex < totalChunks
C18_RecordsNumbered ==
  /\ Assembled =>
       /\ Len(vectors) = Len(result)
       /\ \A k \in 1..Len(vectors) :
            /\ Member(vectors[k].metadata, "chunkIndex").n = k - 1
            /\ Member(vectors[k].metadata, "totalChunks").n = Len(result)
            /\ Member(vectors[k].metadata, "text").s = Str(result[k])
            /\ vectors[k].values = Embedding(Str(result[k]))
  /\ spc = "done" =>
       /\ Len(returned) = Len(result)
       /\ \A k \in 1..Len(returned) : returned[k] = vectors[k].id
  /\ \A r \in 1..Len(index) :
       Member(index[r].metadata, "chunkIndex").n
         < Member(index[r].metadata, "totalChunks").n

\* a call with several chunks has returned whose caller metadata brought its
\* own chunkIndex, totalChunks, text and timestamp
C18_Witness ==
  /\ spc = "done"
  /\ Len(returned) >= 2
  /\ HasKey(metadata, "chunkIndex")
  /\ HasKey(metadata, "totalChunks")
  /\ HasKey(metadata, "text")
  /\ HasKey(metadata, "timestamp")

----------------------------------------------------------------------------
(* Properties of the command line programs *)

\* C19: a command line program whose main() rejects prints the error and
\* ends with an exit code that is not 0
C19_RejectedMainExitsNonZero ==
  (cli.pc = "exited" /\ cli.rejected) =>
    /\ Len(cli.stderr) > 0
    /\ cli.exitCode # 0

\* the store calls the index program is to make for --dir alone
DirWork(args) ==
  LET files == getAllFiles(DirFiles, Extensions(args.ext))
  IN  [k \in 1..Len(files) |-> Work("storeCodeFile", files[k].path)]

\* C20: the index program, its configuration present, exits with code 1,
\* nothing stored, exactly when none of --file, --text and --dir is given;
\* given --dir alone it stores every file below the directory that has one
\* of the extensions, one storeCodeFile call per file, in order
C20_IndexAcceptsDir ==
  (cli.script = "index" /\ cli.configOk /\ cli.pc = "exited") =>
    /\ (cli.exitCode = 1 /\ cli.done = << >>)
         <=> (cli.args.file = "" /\ cli.args.text = "" /\ cli.args.dir = "")
    /\ (cli.args.file = "" /\ cli.args.text = "" /\ cli.args.dir # ""
          /\ ~cli.rejected) => cli.done = DirWork(cli.args)

\* C21: when PINECONE_API_KEY or OPENAI_API_KEY is missing, an entry point
\* sends no request to the index service or the embedding provider, it does
\* nothing but report the missing configuration, and when it has ended it has
\* reported the missing configuration and exited with code 1
C21_MissingConfigIsFatal ==
  cli.missing # {} =>
    /\ cli.network = {}
    /\ cli.pc \in {"start", "exited"}
    /\ cli.pc = "exited" =>
         /\ cli.exitCode = 1
         /\ \E k \in 1..Len(cli.stderr) :
              cli.stderr[k] = "Missing required environment variables"

\* C22: with 0 <= overlap < maxChunkSize every iteration of the loop of
\* chunkText strictly increases start.
C22_LoopAdvances ==
  [][(cpc = "loop" /\ 0 <= overlap /\ overlap < maxChunkSize
        /\ iters' = iters + 1)
      => start' > start]_vars

\* the search of slot p returns its result list in this step
SearchReturns(p) ==
  /\ call'[p].tool = "pinecone_search"
  /\ call'[p].pc = "done"
  /\ ~call'[p].isError
  /\ call'[p] # call[p]

\* the result lists the index produces for the search c from the state idx
ListFrom(idx, c) == FormatResults(IndexQuery(idx, c.project, c.topK))

\* C23: a pinecone_search that starts after the index has acknowledged a
\* pinecone_remember returns a result list the index produced after that
\* acknowledgement: a list made from the records the index held when the
\* search arrived or holds when the search returns.
C23_RememberedIsVisible ==
  [][\A p \in Procs :
       (SearchReturns(p) /\ call'[p].indexAtStart # InitialIndex)
         => call'[p].resp \in {ListFrom(call'[p].indexAtStart, call'[p]),
                               ListFrom(index', call'[p])}]_vars

\* slot p takes a step of a search in this step
SearchStep(p) == call'[p] # call[p] /\ call'[p].tool = "pinecone_search"

\* the search of slot p fails in this step
SearchFails(p) == SearchStep(p) /\ ~call[p].isError /\ call'[p].isError

\* the provider's answer to the search of slot p arrives in this step
EmbeddingArrives(p) ==
  call[p].embedStatus = "pending" /\ call'[p].embedStatus = "ok"

\* every entry of the cache after the step was in it before the step
NothingWritten(before, after) ==
  \/ after = before
  \/ \A i \in 1..Len(after) : \E j \in 1..Len(before) : before[j] = after[i]

\* an entry the step removed was the expired entry of the key
OnlyExpiredRemoved(before, after, key, t) ==
  \/ after = before
  \/ \A j \in 1..Len(before) :
       \/ \E i \in 1..Len(after) : after[i] = before[j]
       \/ before[j].key = key /\ t > before[j].expiresAt

\* C24 (as amended): a search that fails writes nothing into searchCache: the
\* failing step leaves both caches as they are, and the steps before it put
\* no entry into searchCache and none into embeddingCache unless the
\* provider's answer arrived; all the search removes is the expired entry of
\* its own key, by the lookup at its start or in generateEmbedding.
C24_FailedSearchWritesNothing ==
  [][\A p \in Procs :
       /\ SearchFails(p) =>
            searchCache' = searchCache /\ embeddingCache' = embeddingCache
       /\ (SearchStep(p) /\ ~SearchReturns(p)) =>
            /\ NothingWritten(searchCache, searchCache')
            /\ OnlyExpiredRemoved(searchCache, searchCache', call'[p].key, now)
       /\ (SearchStep(p) /\ ~EmbeddingArrives(p)) =>
            /\ NothingWritten(embeddingCache, embeddingCache')
            /\ OnlyExpiredRemoved(embeddingCache, embeddingCache',
                                  call'[p].query, now)]_vars

\* a search has failed after its lookup removed the expired entry of its key
C24_Witness ==
  \E p \in Procs :
    /\ call[p].tool = "pinecone_search"
    /\ call[p].isError
    /\ call[p].touchedSearch

\* C24 (as stated): a search that has failed has left searchCache exactly as
\* it was, and if its embedding call failed it has left embeddingCache as it
\* was too.
C24_FailedSearchLeavesCaches ==
  \A p \in Procs :
    (call[p].tool = "pinecone_search" /\ call[p].isError) =>
      /\ ~call[p].touchedSearch
      /\ call[p].embedStatus = "failed" => ~call[p].touchedEmbedding

====
